---- MODULE Spec2Model ----
(***************************************************************************)
(* A model of src/lib/normalize/yuho.py: the markdown normalizer for       *)
(* Japanese securities reports (normalize, fix_malformed_tables, the TOC   *)
(* scanners, split_by_headers, get_section_hierarchy).                     *)
(*                                                                         *)
(* Representation.                                                         *)
(*   A character is a short ASCII string standing for one code point; a    *)
(*   line is a sequence of characters; a text (a Python str holding line   *)
(*   breaks) is the non-empty sequence of lines that text.split("\n")      *)
(*   returns, so the text "" is << <<>> >> and "a\n" is <<a, <<>>>>.       *)
(*   The only line-break character of the model is "\n".                   *)
(*                                                                         *)
(*   characters that stand for non-ASCII code points:                      *)
(*     "dai" U+7B2C   "bu" U+90E8   "[[" U+3010   "]]" U+3011              *)
(*     "K1".."K10"    the kanji numerals one..ten                          *)
(*     "F0".."F9"     the fullwidth digits                                 *)
(*     "((" "))"      the fullwidth parentheses                            *)
(*     "(1)" "(2)"    circled digits (U+2460..U+2469)                      *)
(*     "..." U+2026 (horizontal ellipsis)   "._" U+FF0E (fullwidth stop)   *)
(*     "x" "y" "z"    any other letters (kana, kanji) with no role         *)
(*     the remaining romanised names are the kanji of the literals the     *)
(*     code looks for (see the definitions of the literals below).         *)
(***************************************************************************)
EXTENDS Naturals, Integers, Sequences, FiniteSets, TLC

(***************************************************************************)
(* Character classes of the regular expressions                            *)
(***************************************************************************)
Whitespace == {" "}
AsciiDigit == {"0", "1", "2", "3", "4", "5", "6", "7", "8", "9"}
FullDigit19 == {"F1", "F2", "F3", "F4", "F5", "F6", "F7", "F8", "F9"}
FullDigit == FullDigit19 \cup {"F0"}
KanjiNum == {"K1", "K2", "K3", "K4", "K5", "K6", "K7", "K8", "K9", "K10"}
AsciiLetter == {"A", "B", "C", "a", "b", "c", "o", "l"}
Circled == {"(1)", "(2)"}
\* \d of Python's re on str: every Unicode decimal digit
Digit == AsciiDigit \cup FullDigit
\* [一二三四五六七八九十０-９] and [一二三四五六七八九十０-９１-９]
PartNumeral == KanjiNum \cup FullDigit
\* [１-９0-9]
SectionNumeral == FullDigit19 \cup AsciiDigit
\* [１-９0-9A-Za-z]
ParenToken == FullDigit19 \cup AsciiDigit \cup AsciiLetter
\* […．\s]
Leader == {"...", "._"} \cup Whitespace
\* […\s]
Dots == {"..."} \cup Whitespace
\* [\s\-:]
SepChar == {"-", ":"} \cup Whitespace

(***************************************************************************)
(* The literals of the code                                                *)
(***************************************************************************)
COVER == <<"[[", "hyou", "shi", "]]">>
TITLE == <<"yuu", "ka", "shou", "ken", "hou", "koku", "sho">>
AUDIT_REPORT == <<"kan", "sa", "hou", "koku", "sho">>
CONFIRMATION == <<"kaku", "nin", "sho">>
INTERNAL_CONTROL == <<"nai", "bu", "tou", "sei", "hou", "koku", "sho">>
FISCAL_YEAR == <<"tou2", "koto", "gyou", "nen", "do">>
PAGE_LABELS == {<<"page">>, <<"pe", "choon", "ji">>}
PART_ONE == <<"dai", "K1", "bu", "[[", "ki", "gyou", "jou", "hou", "]]">>
COL == <<"C", "o", "l">>
AS_OF == <<"nichi", "gen", "zai">>
TOC_WORD == <<"moku", "tsugi">>

\* Python's None (no line is this value: "<None>" is not a character)
None == <<"<None>">>

(***************************************************************************)
(* str methods                                                             *)
(***************************************************************************)
Last(s) == s[Len(s)]

AllIn(s, S) == \A j \in 1..Len(s) : s[j] \in S

StartsWith(s, p) == Len(s) >= Len(p) /\ SubSeq(s, 1, Len(p)) = p

\* p in s
Contains(s, p) ==
  \E j \in 0..(Len(s) - Len(p)) : SubSeq(s, j + 1, j + Len(p)) = p

RECURSIVE LStripSet(_, _)
LStripSet(s, S) ==
  IF s # <<>> /\ Head(s) \in S THEN LStripSet(Tail(s), S) ELSE s

RECURSIVE RStripSet(_, _)
RStripSet(s, S) ==
  IF s # <<>> /\ Last(s) \in S THEN RStripSet(SubSeq(s, 1, Len(s) - 1), S) ELSE s

\* s.strip()
Strip(s) == RStripSet(LStripSet(s, Whitespace), Whitespace)

\* s.lstrip("#")
LStripHash(s) == LStripSet(s, {"#"})

\* s.split("|")
RECURSIVE SplitBar(_)
SplitBar(s) ==
  IF \A j \in 1..Len(s) : s[j] # "|" THEN <<s>>
  ELSE LET p == CHOOSE j \in 1..Len(s) :
                  s[j] = "|" /\ \A q \in 1..(j - 1) : s[q] # "|"
       IN <<SubSeq(s, 1, p - 1)>> \o SplitBar(SubSeq(s, p + 1, Len(s)))

\* the length of the longest prefix of s made of characters of S
RECURSIVE Run(_, _)
Run(s, S) == IF s # <<>> /\ Head(s) \in S THEN 1 + Run(Tail(s), S) ELSE 0

Drop(s, n) == SubSeq(s, n + 1, Len(s))
Take(s, n) == SubSeq(s, 1, n)

(***************************************************************************)
(* The regular expressions, each as the length of its match at the start   *)
(* of s (0: no match) or as a predicate                                    *)
(***************************************************************************)
\* ^(\([X]+\)|（[X]+）), X = [１-９0-9A-Za-z]
ParenMarkerLen(s) ==
  IF s # <<>> /\ Head(s) \in {"(", "(("}
  THEN LET close == IF Head(s) = "(" THEN ")" ELSE "))"
           n == Run(Tail(s), ParenToken)
       IN IF n >= 1 /\ Len(s) >= n + 2 /\ s[n + 2] = close THEN n + 2 ELSE 0
  ELSE 0

\* ^(\([X]+\)|（[X]+）|[①-⑩])
MarkerLen(s) ==
  IF ParenMarkerLen(s) > 0 THEN ParenMarkerLen(s)
  ELSE IF s # <<>> /\ Head(s) \in Circled THEN 1 ELSE 0

\* ^第[一二三四五六七八九十０-９]+部【
PartLen(s) ==
  IF s # <<>> /\ Head(s) = "dai"
  THEN LET n == Run(Tail(s), PartNumeral)
       IN IF n >= 1 /\ Len(s) >= n + 3 /\ s[n + 2] = "bu" /\ s[n + 3] = "[["
          THEN n + 3 ELSE 0
  ELSE 0

\* ^第[一二三四五六七八九十０-９１-９]+【
ChapterLen(s) ==
  IF s # <<>> /\ Head(s) = "dai"
  THEN LET n == Run(Tail(s), PartNumeral)
       IN IF n >= 1 /\ Len(s) >= n + 2 /\ s[n + 2] = "[[" THEN n + 2 ELSE 0
  ELSE 0

\* ^[１-９0-9]+【
SectionLen(s) ==
  LET n == Run(s, SectionNumeral)
  IN IF n >= 1 /\ Len(s) >= n + 1 /\ s[n + 1] = "[[" THEN n + 1 ELSE 0

\* the number of characters of s before its first c (Len(s) when there is none)
RECURSIVE Until(_, _)
Until(s, c) == IF s # <<>> /\ Head(s) # c THEN 1 + Until(Tail(s), c) ELSE 0

\* <prefix of m characters>[^】]+】 : the length of the match, 0 when none
CaptionLen(s, m) ==
  IF m = 0 THEN 0
  ELSE LET r == Until(Drop(s, m), "]]")
       IN IF r >= 1 /\ Len(s) >= m + r + 1 THEN m + r + 1 ELSE 0

\* ^.+[…．\s]+\d+\s*$ (re.match): the text before the trailing whitespace ends
\* in a run of digits, the character before the run is a leader character and
\* at least one character precedes that one
MatchesTocEntry(s) ==
  LET t == RStripSet(s, Whitespace)
      u == RStripSet(t, Digit)
  IN /\ Len(u) < Len(t)
     /\ Len(u) >= 2
     /\ Last(u) \in Leader

\* any table row passes for a separator
IsSeparatorAnyRow(s) == StartsWith(s, <<"|">>)

\* ^\|[\s\-:]+\|
IsSeparator(s) ==
  /\ s # <<>>
  /\ Head(s) = "|"
  /\ LET n == Run(Tail(s), SepChar)
     IN n >= 1 /\ Len(s) >= n + 2 /\ s[n + 2] = "|"

\* ^Col\d+$
IsColPlaceholder(s) ==
  /\ StartsWith(s, COL)
  /\ Len(s) > Len(COL)
  /\ AllIn(Drop(s, Len(COL)), Digit)

\* \d{4}年\d{1,2}月\d{1,2}日現在 matches s from its character a on: the length of
\* the match, 0 when none
DateLenAt(s, a) ==
  LET t == Drop(s, a - 1)
      m == IF Len(t) >= 5 THEN Run(Drop(t, 5), Digit) ELSE 0
      d == IF Len(t) >= 6 + m THEN Run(Drop(t, 6 + m), Digit) ELSE 0
  IN IF /\ Len(t) >= 5
        /\ AllIn(Take(t, 4), Digit)
        /\ t[5] = "nen"
        /\ m \in {1, 2}
        /\ Len(t) >= 6 + m
        /\ t[6 + m] = "gatsu"
        /\ d \in {1, 2}
        /\ StartsWith(Drop(t, 6 + m + d), AS_OF)
     THEN 6 + m + d + Len(AS_OF) ELSE 0

\* re.search(...) of the date in s: the first match, None when there is none
SearchDate(s) ==
  IF \E a \in 1..Len(s) : DateLenAt(s, a) > 0
  THEN LET a == CHOOSE b \in 1..Len(s) :
                  DateLenAt(s, b) > 0 /\ \A c \in 1..(b - 1) : DateLenAt(s, c) = 0
       IN SubSeq(s, a, a + DateLenAt(s, a) - 1)
  ELSE None

\* ^#*\s*有\s*価\s*証\s*券\s*報\s*告\s*書\s*$
RECURSIVE RemoveWhitespace(_)
RemoveWhitespace(s) ==
  IF s = <<>> THEN <<>>
  ELSE IF Head(s) \in Whitespace THEN RemoveWhitespace(Tail(s))
  ELSE <<Head(s)>> \o RemoveWhitespace(Tail(s))

MatchesTitle(s) == RemoveWhitespace(LStripHash(s)) = TITLE

(***************************************************************************)
(* Texts and lines                                                         *)
(***************************************************************************)
\* text.splitlines(): the lines of the text without the line a final "\n"
\* would open
SplitLines(text) ==
  IF Last(text) = <<>> THEN Take(text, Len(text) - 1) ELSE text

\* "\n".join(ls), as the sequence text.split("\n") gives back
JoinLines(ls) == IF ls = <<>> THEN << <<>> >> ELSE ls

Min(S) == CHOOSE m \in S : \A n \in S : m <= n

(***************************************************************************)
(* TableFixer                                                              *)
(***************************************************************************)
\* is_malformed_table_header without the tests of the cells
is_malformed_table_header_any(cells) == Len(cells) >= 3

\* cells is line.split("|"): cells[1] of the code is cells[2] here
is_malformed_table_header(cells) ==
  IF Len(cells) < 3 THEN FALSE
  ELSE IF MarkerLen(Strip(cells[2])) = 0 THEN FALSE
  ELSE \E j \in 3..(Len(cells) - 1) : IsColPlaceholder(Strip(cells[j]))

extract_date_from_cells(cells) ==
  LET hits == {j \in 2..Len(cells) :
                 Strip(cells[j]) # <<>> /\ SearchDate(Strip(cells[j])) # None}
  IN IF hits = {} THEN None ELSE SearchDate(Strip(cells[Min(hits)]))

\* should_skip_row without the test that a non-empty cell exists
should_skip_row_all(cells) ==
  \A j \in 2..(Len(cells) - 1) :
    Strip(cells[j]) # <<>> => Strip(cells[j]) = FISCAL_YEAR

should_skip_row(cells) ==
  LET non_empty_cells == {j \in 2..(Len(cells) - 1) : Strip(cells[j]) # <<>>}
  IN /\ non_empty_cells # {}
     /\ \A j \in non_empty_cells : Strip(cells[j]) = FISCAL_YEAR

RECURSIVE Dashes(_)
Dashes(n) ==
  IF n <= 0 THEN <<>>
  ELSE IF n = 1 THEN <<"-", "-", "-">>
  ELSE <<"-", "-", "-", "|">> \o Dashes(n - 1)

\* create_separator with one column too many
create_separator_wide(num_columns) ==
  <<"|">> \o Dashes(num_columns + 1) \o <<"|">>

create_separator(num_columns) == <<"|">> \o Dashes(num_columns) \o <<"|">>

(***************************************************************************)
(* TOCExtractor                                                            *)
(***************************************************************************)
\* re.search(目\s*次, line) or line.strip() == 目次
is_toc_start(line) ==
  \/ \E a \in 1..Len(line) :
       /\ line[a] = TOC_WORD[1]
       /\ LET r == Run(Drop(line, a), Whitespace)
          IN Len(line) >= a + r + 1 /\ line[a + r + 1] = TOC_WORD[2]
  \/ Strip(line) = TOC_WORD

is_toc_entry(line) == MatchesTocEntry(line)

\* the four patterns in their order; group(1) of the first that matches
extract_header_from_toc(line) ==
  IF CaptionLen(line, PartLen(line)) > 0
  THEN Take(line, CaptionLen(line, PartLen(line)))
  ELSE IF CaptionLen(line, ChapterLen(line)) > 0
  THEN Take(line, CaptionLen(line, ChapterLen(line)))
  ELSE IF CaptionLen(line, SectionLen(line)) > 0
  THEN Take(line, CaptionLen(line, SectionLen(line)))
  ELSE IF /\ ParenMarkerLen(line) > 0
          /\ Len(line) > ParenMarkerLen(line)
          /\ line[ParenMarkerLen(line) + 1] # "..."
  THEN Take(line, ParenMarkerLen(line))
  ELSE None

(***************************************************************************)
(* Header classification                                                   *)
(***************************************************************************)
\* "#" * n + " "
RECURSIVE Hashes(_)
Hashes(n) == IF n = 0 THEN <<>> ELSE <<"#">> \o Hashes(n - 1)

Prefix(n) == Hashes(n) \o <<" ">>

\* HEADER_PATTERNS in their order; the level of the first that matches, 3 by
\* default
HeaderLevelOf(header) ==
  IF PartLen(header) > 0 THEN 1
  ELSE IF ChapterLen(header) > 0 THEN 2
  ELSE IF SectionLen(header) > 0 THEN 3
  ELSE IF MarkerLen(header) > 0 THEN 4
  ELSE 3

determine_header_level(header) == Prefix(HeaderLevelOf(header))

\* is_header_line without the comparison with the TOC headers
is_header_line_no_toc(line, toc_headers_) ==
  LET line_stripped == Strip(line)
      m == MarkerLen(line_stripped)
      rest == LStripSet(Drop(line_stripped, m), Whitespace)
  IN IF ~is_toc_entry(line_stripped) /\ m > 0 /\ Len(rest) > 2
     THEN line_stripped ELSE None

\* the header text of the line, None when the line is no header
is_header_line(line, toc_headers_) ==
  LET line_stripped == Strip(line)
      m == MarkerLen(line_stripped)
      \* group(2) of ^(marker)\s*(.+)$ on a stripped line
      rest == LStripSet(Drop(line_stripped, m), Whitespace)
  IN IF is_toc_entry(line_stripped) THEN None
     ELSE IF \E j \in 1..Len(toc_headers_) : line_stripped = toc_headers_[j]
     THEN line_stripped
     ELSE IF /\ ~MatchesTocEntry(line_stripped)
             /\ m > 0
             /\ Len(rest) > 2
     THEN line_stripped
     ELSE None

(***************************************************************************)
(* Bounds and input texts                                                  *)
(***************************************************************************)
\* the longest input text, in lines, of each family of inputs
MaxTocLines == 4
MaxTableLines == 4
MaxHeaderLines == 4
\* normalize is called on the input and then again on each result
MaxPasses == 3

\* every sequence of at most n lines of V
RECURSIVE LineSeqs(_, _)
LineSeqs(V, n) ==
  IF n = 0 THEN {<<>>}
  ELSE LET P == LineSeqs(V, n - 1)
       IN P \cup {Append(q, l) : q \in {p \in P : Len(p) = n - 1}, l \in V}

\* the texts of at most n lines of V (a text has at least one line; a text
\* whose last line is empty ends in "\n")
Texts(V, n) == LineSeqs(V, n) \ {<<>>}

DOTTED_PART_ONE == PART_ONE \o <<"...", "1">>
SUBSECTION_LINE == <<"((", "F1", "))", "x", "y", "z">>
DOTTED_LINE == <<"x", "...", "3">>
BARE_MARKER == <<"((", "F1", "))">>
DOTTED_AUDIT_CHAPTER ==
  <<"dai", "F2", "[[">> \o AUDIT_REPORT \o <<"]]", "...", "5">>

\* a front matter with a table of contents, a cover page and a body
TocVocabulary ==
  { TOC_WORD, DOTTED_PART_ONE, COVER, PART_ONE, SUBSECTION_LINE, DOTTED_LINE,
    BARE_MARKER, AUDIT_REPORT, DOTTED_AUDIT_CHAPTER, <<>> }

CAPTION_A == <<"((", "F2", "))", "x">>
CAPTION_B == <<"(1)", " ", "y">>
DATE_TOKEN ==
  <<"2", "0", "2", "4", "nen", "F3", "gatsu", "3", "1", "nichi", "gen", "zai">>
MALFORMED_ROW_A ==
  <<"|">> \o CAPTION_A \o <<"|", "C", "o", "l", "2", "|">> \o DATE_TOKEN \o <<"|">>
MALFORMED_ROW_B == <<"|">> \o CAPTION_B \o <<"|", "C", "o", "l", "2", "|">>
SEPARATOR_ROW == <<"|", "-", "-", "-", "|", "-", "-", "-", "|">>
SKIP_ROW == <<"|">> \o FISCAL_YEAR \o <<"|", " ", "|">>
TABLE_ROW == <<"|", "x", "|", "y", "|">>
HEADER_A == <<"#", "#", "#", "#", " ">> \o CAPTION_A

\* table rows and the lines around them
TableVocabulary ==
  { MALFORMED_ROW_A, MALFORMED_ROW_B, SEPARATOR_ROW, SKIP_ROW, TABLE_ROW,
    HEADER_A, <<"z">>, <<>> }

\* header lines of the levels 1 to 5, some with the same text, a header
\* line without text, body lines and a body line that holds a "#" after a
\* space; normalize returns every text of these lines as it is
HeaderVocabulary ==
  { <<"#", " ", "x">>, <<"#", "#", " ", "x">>, <<"#", "#", " ", "y">>,
    <<"#", "#", "#", " ", "y">>, <<"#", "#", "#", "#", " ", "z">>,
    <<"#", "#", "#", "#", "#", " ", "x">>, <<"#">>, <<"z">>,
    <<" ", "#", "y">>, <<>> }

\* a row split into one cell of dashes and one of text, and a row of empty
\* cells
LOOSE_SEPARATOR == <<"|", "-", "|", "x", "|">>
EMPTY_ROW == <<"|", " ", "|", " ", "|">>

\* a caption row of two interior fields and the rows that may follow it
RowVocabulary ==
  { MALFORMED_ROW_B, SEPARATOR_ROW, LOOSE_SEPARATOR, EMPTY_ROW, SKIP_ROW,
    TABLE_ROW }

\* the title with markers and whitespace between its characters
SPACED_TITLE ==
  <<"#", " ", "yuu", " ", "ka", "shou", "ken", " ", "hou", "koku", "sho">>

\* the title line in two spellings, the lines that start the content and a
\* dotted-leader line, which is dropped before the content
TitleVocabulary == { TITLE, SPACED_TITLE, COVER, PART_ONE, DOTTED_LINE }

TocInputs == Texts(TocVocabulary, MaxTocLines)
TitleInputs == Texts(TitleVocabulary, MaxTocLines)
RowInputs == Texts(RowVocabulary, MaxTableLines)
HeaderInputs == Texts(HeaderVocabulary, MaxHeaderLines)
TableInputs == Texts(TableVocabulary, MaxTableLines)

(***************************************************************************)
(* State                                                                   *)
(***************************************************************************)
VARIABLES
  input,             \* the text the caller holds
  pc,                \* the function and loop that runs
  results,           \* what normalize returned, call after call
  lines,             \* normalize: lines
  k,                 \* the number of lines the running for loop has read
  in_toc,            \* extract_toc_headers: in_toc
  toc_headers,       \* extract_toc_headers: toc_headers
  content_started,   \* normalize: content_started
  normalized_lines,  \* normalize: normalized_lines
  tlines,            \* fix_malformed_tables: lines
  i,                 \* fix_malformed_tables: i
  fixed_lines,       \* fix_malformed_tables: fixed_lines
  first_data_row,    \* fix_malformed_tables: first_data_row
  steps,             \* the loop tests fix_malformed_tables has run in this call
  toc_entries,       \* extract_toc_structure: toc_entries
  chunks,            \* split_by_headers: chunks, in the order of insertion
  current_header,    \* split_by_headers: current_header
  current_content,   \* split_by_headers: current_content
  chunk_results,     \* what split_by_headers returned, call after call
  hierarchy,         \* get_section_hierarchy: hierarchy
  current_headers    \* get_section_hierarchy: current_headers, by level

vars ==
  <<input, pc, results, lines, k, in_toc, toc_headers, content_started,
    normalized_lines, tlines, i, fixed_lines, first_data_row, steps,
    toc_entries, chunks, current_header, current_content, chunk_results,
    hierarchy, current_headers>>

tocVars == <<in_toc, toc_headers>>
segVars == <<content_started, normalized_lines>>
fixVars == <<tlines, i, fixed_lines, first_data_row, steps>>
chunkVars == <<chunks, current_header, current_content, chunk_results>>
hierVars == <<hierarchy, current_headers>>
queryVars == <<toc_entries, chunkVars, hierVars>>
normVars == <<results, tocVars, segVars, fixVars>>

Idle ==
  /\ pc = "idle"
  /\ results = <<>>
  /\ lines = <<>>
  /\ k = 0
  /\ in_toc = FALSE
  /\ toc_headers = <<>>
  /\ content_started = FALSE
  /\ normalized_lines = <<>>
  /\ tlines = <<>>
  /\ i = 0
  /\ fixed_lines = <<>>
  /\ first_data_row = FALSE
  /\ steps = 0
  /\ toc_entries = <<>>
  /\ chunks = <<>>
  /\ current_header = None
  /\ current_content = <<>>
  /\ chunk_results = <<>>
  /\ hierarchy = <<>>
  /\ current_headers = [l \in 1..4 |-> None]

\* the documents of the model: with a table of contents, with tables, with
\* a title line
Inputs == TocInputs \cup TableInputs \cup RowInputs \cup TitleInputs

\* the caller holds one of the documents
Init == input \in Inputs /\ Idle

(***************************************************************************)
(* normalize                                                               *)
(***************************************************************************)
\* the argument of the next call: the input, then the last result
Argument == IF results = <<>> THEN input ELSE Last(results)

\* lines = markdown.splitlines(); extract_toc_headers(lines) is entered
CallNormalize ==
  /\ pc = "idle"
  /\ Len(results) < MaxPasses
  /\ lines' = SplitLines(Argument)
  /\ k' = 0
  /\ in_toc' = FALSE
  /\ toc_headers' = <<>>
  /\ pc' = "extract_toc_headers"
  /\ UNCHANGED <<input, queryVars, results, segVars, fixVars>>

EndOfTocToken(line) ==
  \/ Contains(line, AUDIT_REPORT)
  \/ Contains(line, CONFIRMATION)
  \/ Contains(line, INTERNAL_CONTROL)

\* one iteration of the loop of extract_toc_headers
TocHeadersStep ==
  /\ pc = "extract_toc_headers"
  /\ k < Len(lines)
  /\ LET line == lines[k + 1]
         header == extract_header_from_toc(line)
     IN IF is_toc_start(line)
        THEN in_toc' = TRUE /\ UNCHANGED toc_headers
        ELSE IF in_toc /\ header # None
        THEN toc_headers' = Append(toc_headers, header) /\ UNCHANGED in_toc
        ELSE IF in_toc /\ EndOfTocToken(line)
        THEN in_toc' = FALSE /\ UNCHANGED toc_headers
        ELSE UNCHANGED <<in_toc, toc_headers>>
  /\ k' = k + 1
  /\ UNCHANGED <<input, queryVars, pc, results, lines, segVars, fixVars>>

\* extract_toc_headers returns; phase 2 of normalize is entered
TocHeadersReturn ==
  /\ pc = "extract_toc_headers"
  /\ k = Len(lines)
  /\ pc' = "segment"
  /\ k' = 0
  /\ content_started' = FALSE
  /\ normalized_lines' = <<>>
  /\ UNCHANGED <<input, queryVars, results, lines, tocVars, fixVars>>

\* the line is the cover marker or opens with a PART caption
StartsContent(line) == Strip(line) = COVER \/ PartLen(Strip(line)) > 0

\* what one iteration of phase 2 appends for a line of the content
ContentLine(line, out) ==
  IF MatchesTitle(Strip(line)) /\ Len(out) = 0
  THEN <<Prefix(1) \o TITLE>>
  ELSE IF is_header_line(line, toc_headers) # None
  THEN <<determine_header_level(is_header_line(line, toc_headers))
         \o is_header_line(line, toc_headers)>>
  ELSE <<line>>

\* phase 2 as a function of the lines still to read, of content_started and
\* of len(normalized_lines) == 0: the number of lines on which the branch of
\* the title is taken (a line before the content is dropped or appended, a
\* line of the content appends one line)
RECURSIVE TitleBranches(_, _, _)
TitleBranches(ls, started, empty) ==
  IF ls = <<>> THEN 0
  ELSE LET line == Head(ls)
           now == started \/ StartsContent(line)
       IN IF ~now
          THEN TitleBranches(Tail(ls), now, empty /\ is_toc_entry(line))
          ELSE (IF MatchesTitle(Strip(line)) /\ empty THEN 1 ELSE 0)
               + TitleBranches(Tail(ls), now, FALSE)

\* one iteration of the loop of phase 2
SegmentStep ==
  /\ pc = "segment"
  /\ k < Len(lines)
  /\ LET line == lines[k + 1]
         started == content_started \/ StartsContent(line)
     IN /\ content_started' = started
        /\ normalized_lines' =
             IF ~started
             THEN IF is_toc_entry(line) THEN normalized_lines
                  ELSE Append(normalized_lines, line)
             ELSE normalized_lines \o ContentLine(line, normalized_lines)
  /\ k' = k + 1
  /\ UNCHANGED <<input, queryVars, pc, results, lines, tocVars, fixVars>>

\* phase 3: fix_malformed_tables("\n".join(normalized_lines)) is entered
SegmentReturn ==
  /\ pc = "segment"
  /\ k = Len(lines)
  /\ tlines' = JoinLines(normalized_lines)
  /\ i' = 0
  /\ fixed_lines' = <<>>
  /\ first_data_row' = FALSE
  /\ steps' = 0
  /\ pc' = "fix_outer"
  /\ UNCHANGED <<input, queryVars, results, lines, k, tocVars, segVars>>

(***************************************************************************)
(* fix_malformed_tables; i counts from 0 as in the code, so lines[i] of    *)
(* the code is tlines[i + 1]                                               *)
(***************************************************************************)
IsRow(line) == StartsWith(line, <<"|">>)

\* lines[i] is a malformed row followed by a separator
MalformedAt(ls, j) ==
  /\ IsRow(ls[j + 1])
  /\ j + 1 < Len(ls)
  /\ IsSeparator(ls[j + 2])
  /\ is_malformed_table_header(SplitBar(ls[j + 1]))

CaptionHeader(line) == Prefix(4) \o Strip(SplitBar(line)[2])

\* the header of the malformed row at i is already the line before it
HeaderExists(ls, j) == j > 0 /\ Strip(ls[j]) = CaptionHeader(ls[j + 1])

\* the header line and the date line of a malformed row
CaptionLines(line) ==
  <<CaptionHeader(line)>> \o
  (IF extract_date_from_cells(SplitBar(line)) # None
   THEN <<extract_date_from_cells(SplitBar(line))>> ELSE <<>>)

\* one iteration of the outer loop
FixOuter ==
  /\ pc = "fix_outer"
  /\ i < Len(tlines)
  /\ IF MalformedAt(tlines, i)
     THEN IF HeaderExists(tlines, i)
          THEN /\ i' = i + 2
               /\ UNCHANGED <<fixed_lines, pc>>
          ELSE /\ fixed_lines' = fixed_lines \o CaptionLines(tlines[i + 1])
               /\ i' = i + 2
               /\ pc' = "fix_skip"
     ELSE /\ fixed_lines' = Append(fixed_lines, tlines[i + 1])
          /\ i' = i + 1
          /\ pc' = pc
  /\ steps' = steps + 1
  /\ UNCHANGED <<input, queryVars, results, lines, k, tocVars, segVars, tlines, first_data_row>>

\* FixSkip without the advance of the cursor
FixSkipStuck ==
  /\ pc = "fix_skip"
  /\ IF /\ i < Len(tlines)
        /\ IsRow(tlines[i + 1])
        /\ should_skip_row(SplitBar(tlines[i + 1]))
     THEN UNCHANGED <<i, pc, first_data_row>>
     ELSE pc' = "fix_emit" /\ first_data_row' = TRUE /\ i' = i
  /\ steps' = steps + 1
  /\ UNCHANGED <<input, queryVars, results, lines, k, tocVars, segVars, tlines, fixed_lines>>

\* one test of the loop that skips the placeholder rows, and its body
FixSkip ==
  /\ pc = "fix_skip"
  /\ IF /\ i < Len(tlines)
        /\ IsRow(tlines[i + 1])
        /\ should_skip_row(SplitBar(tlines[i + 1]))
     THEN i' = i + 1 /\ UNCHANGED <<pc, first_data_row>>
     ELSE pc' = "fix_emit" /\ first_data_row' = TRUE /\ i' = i
  /\ steps' = steps + 1
  /\ UNCHANGED <<input, queryVars, results, lines, k, tocVars, segVars, tlines, fixed_lines>>

\* a separator follows the header row that was just emitted
SeparatorDue(ls, j) == j < Len(ls) /\ IsRow(ls[j + 1])

\* one test of the loop that emits the rows, and its body
FixEmit ==
  /\ pc = "fix_emit"
  /\ IF i < Len(tlines) /\ IsRow(tlines[i + 1])
     THEN /\ fixed_lines' =
               Append(fixed_lines, tlines[i + 1]) \o
               (IF first_data_row /\ SeparatorDue(tlines, i + 1)
                THEN <<create_separator(Len(SplitBar(tlines[i + 1])) - 2)>>
                ELSE <<>>)
          /\ i' = i + 1
          /\ first_data_row' = FALSE
          /\ pc' = pc
     ELSE /\ pc' = "fix_outer"
          /\ UNCHANGED <<fixed_lines, i, first_data_row>>
  /\ steps' = steps + 1
  /\ UNCHANGED <<input, queryVars, results, lines, k, tocVars, segVars, tlines>>

\* fix_malformed_tables returns "\n".join(fixed_lines) and normalize returns it
FixReturn ==
  /\ pc = "fix_outer"
  /\ i >= Len(tlines)
  /\ results' = Append(results, JoinLines(fixed_lines))
  /\ pc' = "idle"
  /\ UNCHANGED <<input, queryVars, lines, k, tocVars, segVars, fixVars>>

(***************************************************************************)
(* extract_toc_structure                                                   *)
(***************************************************************************)
AsciiDigits == <<"0", "1", "2", "3", "4", "5", "6", "7", "8", "9">>
FullDigits == <<"F0", "F1", "F2", "F3", "F4", "F5", "F6", "F7", "F8", "F9">>

\* int(c) of one decimal digit
DigitValue(c) ==
  (CHOOSE n \in 1..10 : AsciiDigits[n] = c \/ FullDigits[n] = c) - 1

\* int(s) of a string of decimal digits
RECURSIVE IntOf(_)
IntOf(s) ==
  IF s = <<>> THEN 0
  ELSE 10 * IntOf(Take(s, Len(s) - 1)) + DigitValue(Last(s))

\* group(1) of ^(.+?)[…．\s]+(\d+)\s*$ on a line that matches: the lazy
\* group stops before the leader characters that precede the page number,
\* and holds one character at least
EntryText(line) ==
  LET t == RStripSet(line, Whitespace)
      u == RStripSet(t, Digit)
      v == RStripSet(u, Leader)
  IN Take(u, IF Len(v) = 0 THEN 1 ELSE Len(v))

\* group(2) of the same match
EntryPage(line) ==
  LET t == RStripSet(line, Whitespace)
  IN Drop(t, Len(RStripSet(t, Digit)))

\* ^(第[N]+[部【]|[１-９0-9]+【|\([X]+\)|（[X]+）) on the header of an entry
ValidEntryHeader(header) ==
  \/ /\ header # <<>>
     /\ Head(header) = "dai"
     /\ LET n == Run(Tail(header), PartNumeral)
        IN n >= 1 /\ Len(header) >= n + 2 /\ header[n + 2] \in {"bu", "[["}
  \/ SectionLen(header) > 0
  \/ ParenMarkerLen(header) > 0

\* the entries the line adds to toc_entries
TocEntryOf(line) ==
  IF MatchesTocEntry(line) /\ ValidEntryHeader(Strip(EntryText(line)))
  THEN << <<Strip(EntryText(line)), IntOf(EntryPage(line))>> >>
  ELSE <<>>

\* char.isdigit() for some char of the line
AnyDigit(line) == \E j \in 1..Len(line) : line[j] \in (Digit \cup Circled)

\* the check for the start of the content, which ends the loop
ContentBreak(line) ==
  /\ Strip(line) \in PAGE_LABELS \/ Contains(line, PART_ONE)
  /\ ~AnyDigit(line)

\* lines = markdown.splitlines() and the initial values of the locals
CallTocStructure ==
  /\ pc = "idle"
  /\ results = <<>>
  /\ lines' = SplitLines(input)
  /\ k' = 0
  /\ in_toc' = FALSE
  /\ toc_entries' = <<>>
  /\ pc' = "extract_toc_structure"
  /\ UNCHANGED <<input, results, toc_headers, segVars, fixVars, chunkVars, hierVars>>

\* one iteration of the loop of extract_toc_structure
TocStructureStep ==
  /\ pc = "extract_toc_structure"
  /\ k < Len(lines)
  /\ LET line == lines[k + 1]
     IN IF is_toc_start(line)
        THEN in_toc' = TRUE /\ UNCHANGED <<toc_entries, pc>>
        ELSE /\ toc_entries' =
                  IF in_toc THEN toc_entries \o TocEntryOf(line) ELSE toc_entries
             /\ pc' = IF in_toc /\ ContentBreak(line) THEN "returned" ELSE pc
             /\ UNCHANGED in_toc
  /\ k' = k + 1
  /\ UNCHANGED <<input, results, lines, toc_headers, segVars, fixVars, chunkVars, hierVars>>

\* the loop is over: extract_toc_structure returns toc_entries
TocStructureReturn ==
  /\ pc = "extract_toc_structure"
  /\ k = Len(lines)
  /\ pc' = "returned"
  /\ UNCHANGED <<input, results, lines, k, tocVars, segVars, fixVars, queryVars>>

(***************************************************************************)
(* dict and str helpers of the structural queries; a dict is the sequence  *)
(* of its (key, value) pairs in the order of insertion                     *)
(***************************************************************************)
Max(S) == CHOOSE m \in S : \A n \in S : m >= n

Keys(d) == {d[j][1] : j \in 1..Len(d)}

\* d[key]
Get(d, key) == d[CHOOSE j \in 1..Len(d) : d[j][1] = key][2]

\* d[key] = value
Put(d, key, value) ==
  IF key \in Keys(d)
  THEN [j \in 1..Len(d) |-> IF d[j][1] = key THEN <<key, value>> ELSE d[j]]
  ELSE Append(d, <<key, value>>)

\* text.strip() of a text of several lines: the line breaks are whitespace
StripText(text) ==
  LET solid == {j \in 1..Len(text) : ~AllIn(text[j], Whitespace)}
  IN IF solid = {} THEN << <<>> >>
     ELSE IF Min(solid) = Max(solid) THEN <<Strip(text[Min(solid)])>>
     ELSE <<LStripSet(text[Min(solid)], Whitespace)>>
          \o SubSeq(text, Min(solid) + 1, Max(solid) - 1)
          \o <<RStripSet(text[Max(solid)], Whitespace)>>

\* line.startswith("#")
IsHeader(line) == StartsWith(line, <<"#">>)

\* line.lstrip("#") without the strip that follows it
HeaderTextUnstripped(line) == LStripHash(line)

\* line.lstrip("#").strip()
HeaderText(line) == Strip(LStripHash(line))

\* the truth value of an Optional[str]
Truthy(s) == s # None /\ s # <<>>

(***************************************************************************)
(* split_by_headers                                                        *)
(***************************************************************************)
\* SaveChunk that keeps the first body of a header
SaveChunkFirst(d, h, content) ==
  IF Truthy(h) /\ h \notin Keys(d)
  THEN Put(d, h, StripText(JoinLines(content))) ELSE d

\* if current_header: chunks[current_header] = "\n".join(current_content).strip()
SaveChunk(d, h, content) ==
  IF Truthy(h) THEN Put(d, h, StripText(JoinLines(content))) ELSE d

\* the text of the chunks: for each entry in order a level-1 header marker
\* with the header text, then the body
RECURSIVE Reassembled(_)
Reassembled(d) ==
  IF d = <<>> THEN << <<>> >>
  ELSE (IF Len(d) = 1 THEN <<>> ELSE Reassembled(Take(d, Len(d) - 1)))
       \o <<Prefix(1) \o Last(d)[1]>> \o Last(d)[2]

\* the caller splits its document, then the text of the chunks it got
SplitArgument ==
  IF chunk_results = <<>> THEN input ELSE Reassembled(Last(chunk_results))

\* lines = markdown.splitlines() and the initial values of the locals
CallSplit ==
  /\ \/ pc = "idle" /\ results = <<>>
     \/ pc = "chunked" /\ Len(chunk_results) < MaxPasses
  /\ lines' = SplitLines(SplitArgument)
  /\ k' = 0
  /\ chunks' = <<>>
  /\ current_header' = None
  /\ current_content' = <<>>
  /\ pc' = "split_by_headers"
  /\ UNCHANGED <<input, normVars, toc_entries, chunk_results, hierVars>>

\* one iteration of the loop of split_by_headers
SplitStep ==
  /\ pc = "split_by_headers"
  /\ k < Len(lines)
  /\ LET line == lines[k + 1]
     IN IF IsHeader(line)
        THEN /\ chunks' = SaveChunk(chunks, current_header, current_content)
             /\ current_header' = HeaderText(line)
             /\ current_content' = <<>>
        ELSE /\ current_content' =
                  IF Truthy(current_header) THEN Append(current_content, line)
                  ELSE current_content
             /\ UNCHANGED <<chunks, current_header>>
  /\ k' = k + 1
  /\ UNCHANGED <<input, pc, lines, normVars, toc_entries, chunk_results, hierVars>>

\* the last chunk is saved and split_by_headers returns chunks
SplitReturn ==
  /\ pc = "split_by_headers"
  /\ k = Len(lines)
  /\ chunks' = SaveChunk(chunks, current_header, current_content)
  /\ chunk_results' = Append(chunk_results, chunks')
  /\ pc' = "chunked"
  /\ UNCHANGED <<input, lines, k, normVars, toc_entries, current_header,
                 current_content, hierVars>>

(***************************************************************************)
(* get_section_hierarchy                                                   *)
(***************************************************************************)
\* len(line) - len(line.lstrip("#"))
LevelCount(line) == Run(line, {"#"})

\* the lower levels are left as they are
KeepLower(ch, level) == ch

\* for lower_level in HeaderLevel: if lower_level.value > level.value: clear
ClearLower(ch, level) ==
  [l \in 1..4 |-> IF l > level THEN None ELSE ch[l]]

\* the body of the try block for a header line of a valid level
Record(h, ch, level, header_text) ==
  LET h1 == IF header_text \in Keys(h) THEN h
            ELSE Append(h, <<header_text, <<>> >>)
  IN IF level > 1 /\ Truthy(ch[level - 1]) /\ ch[level - 1] \in Keys(h1)
     THEN Put(h1, ch[level - 1], Append(Get(h1, ch[level - 1]), header_text))
     ELSE h1

\* lines = normalized_markdown.splitlines() and the initial values of the locals
CallHierarchy ==
  /\ pc = "idle"
  /\ results = <<>>
  /\ lines' = SplitLines(input)
  /\ k' = 0
  /\ hierarchy' = <<>>
  /\ current_headers' = [l \in 1..4 |-> None]
  /\ pc' = "get_section_hierarchy"
  /\ UNCHANGED <<input, normVars, toc_entries, chunkVars>>

\* one iteration of the loop of get_section_hierarchy
HierarchyStep ==
  /\ pc = "get_section_hierarchy"
  /\ k < Len(lines)
  /\ LET line == lines[k + 1]
         level == LevelCount(line)
         ch == ClearLower([current_headers EXCEPT ![level] = HeaderText(line)],
                          level)
     IN IF IsHeader(line) /\ level \in 1..4
        THEN /\ current_headers' = ch
             /\ hierarchy' = Record(hierarchy, ch, level, HeaderText(line))
        ELSE UNCHANGED <<hierarchy, current_headers>>
  /\ k' = k + 1
  /\ UNCHANGED <<input, pc, lines, normVars, toc_entries, chunkVars>>

\* the loop is over: get_section_hierarchy returns hierarchy
HierarchyReturn ==
  /\ pc = "get_section_hierarchy"
  /\ k = Len(lines)
  /\ pc' = "returned"
  /\ UNCHANGED <<input, lines, k, normVars, queryVars>>

Next ==
  \/ CallNormalize
  \/ TocHeadersStep
  \/ TocHeadersReturn
  \/ SegmentStep
  \/ SegmentReturn
  \/ FixOuter
  \/ FixSkip
  \/ FixEmit
  \/ FixReturn
  \/ CallTocStructure
  \/ TocStructureStep
  \/ TocStructureReturn

Spec == Init /\ [][Next]_vars

\* the caller holds a normalized document and queries its structure
InitQuery == input \in HeaderInputs /\ Idle

NextQuery ==
  \/ CallSplit
  \/ SplitStep
  \/ SplitReturn
  \/ CallHierarchy
  \/ HierarchyStep
  \/ HierarchyReturn

SpecQuery == InitQuery /\ [][NextQuery]_vars

(***************************************************************************)
(* Claims about normalize on documents with a table of contents            *)
(***************************************************************************)
Returned(n) == pc = "idle" /\ Len(results) >= n

HasLine(text, line) == \E j \in 1..Len(text) : text[j] = line

\* the text holds a table-of-contents line, then only dotted-leader entries,
\* one of them the entry of PART ONE, then the cover marker, then a body with
\* the PART ONE caption and no dotted-leader line
ScenarioA(text) ==
  \E t, c, b \in 1..Len(text) :
    /\ t + 1 < c
    /\ c < b
    /\ is_toc_start(text[t])
    /\ \A j \in (t + 1)..(c - 1) : is_toc_entry(text[j])
    /\ \E j \in (t + 1)..(c - 1) : text[j] = DOTTED_PART_ONE
    /\ \A j \in 1..(t - 1) : ~is_toc_entry(text[j])
    /\ text[c] = COVER
    /\ text[b] = PART_ONE
    /\ \A j \in (c + 1)..Len(text) : ~is_toc_entry(text[j])

\* C1: for an input whose table-of-contents block (a TOC line followed by
\* dotted-leader entries, the entry of PART ONE among them) precedes the cover
\* marker and whose body holds the PART ONE caption, the output of normalize
\* holds the level-1 header of PART ONE and no dotted-leader entry line.
C1_TocBlockDropped ==
  (Returned(1) /\ ScenarioA(input)) =>
    /\ HasLine(results[1], Prefix(1) \o PART_ONE)
    /\ \A j \in 1..Len(results[1]) : ~is_toc_entry(results[1][j])

NoMalformedBlock(text) == \A j \in 0..(Len(text) - 1) : ~MalformedAt(text, j)

\* C2: normalize is idempotent on its own outputs: for x = normalize(input)
\* with no malformed-table block, normalize(normalize(x)) and normalize(x)
\* are the same lines.
C2_Idempotent ==
  (Returned(3) /\ NoMalformedBlock(results[1])) =>
    SplitLines(results[3]) = SplitLines(results[2])

\* the index of the first line of the content region (Len + 1: no content)
ContentStart(ls) ==
  IF \E j \in 1..Len(ls) : StartsContent(ls[j])
  THEN Min({j \in 1..Len(ls) : StartsContent(ls[j])})
  ELSE Len(ls) + 1

HeaderForms(h) == {Prefix(n) \o h : n \in 1..4}

\* C5: every line of the content region whose trimmed text is a header that
\* extract_toc_headers captured is in the output of normalize as a header
\* line (one to four "#", a space, the header): the output holds at least as
\* many such lines as the content region holds lines that trim to the header.
C5_TocHeadersPromoted ==
  (pc = "idle" /\ results # <<>>) =>
    \A t \in 1..Len(toc_headers) :
      LET h == toc_headers[t]
          out == Last(results)
      IN Cardinality({j \in 1..Len(out) : out[j] \in HeaderForms(h)}) >=
         Cardinality({j \in ContentStart(lines)..Len(lines) : Strip(lines[j]) = h})

\* a captured header is the trimmed text of a line of the content region
C5_Witness ==
  /\ pc = "idle"
  /\ results # <<>>
  /\ \E t \in 1..Len(toc_headers) :
       \E j \in ContentStart(lines)..Len(lines) :
         /\ Strip(lines[j]) = toc_headers[t]
         /\ HasLine(Last(results), Prefix(1) \o toc_headers[t])

(***************************************************************************)
(* Claims about fix_malformed_tables                                       *)
(***************************************************************************)
\* a caption row with Col placeholders, a separator row, then only rows that
\* are neither of these: placeholder rows, a true header row and data rows
MalformedBlock(text) ==
  /\ Len(text) >= 4
  /\ text[1] \in {MALFORMED_ROW_A, MALFORMED_ROW_B}
  /\ text[2] = SEPARATOR_ROW
  /\ \A j \in 3..Len(text) : text[j] \in {TABLE_ROW, SKIP_ROW}
  /\ \E j \in 3..Len(text) : text[j] = TABLE_ROW

FirstMalformed(ls) == Min({j \in 0..(Len(ls) - 1) : MalformedAt(ls, j)})

\* the first line at or after j that is no placeholder row
RECURSIVE SkipEnd(_, _)
SkipEnd(ls, j) ==
  IF j < Len(ls) /\ IsRow(ls[j + 1]) /\ should_skip_row(SplitBar(ls[j + 1]))
  THEN SkipEnd(ls, j + 1) ELSE j

\* the first line at or after j that is no table row
RECURSIVE RowsEnd(_, _)
RowsEnd(ls, j) == IF j < Len(ls) /\ IsRow(ls[j + 1]) THEN RowsEnd(ls, j + 1) ELSE j

\* the lines hold a malformed row, and a table row that is no placeholder row
\* follows its separator: the true header row
HasBlock(ls) ==
  /\ \E j \in 0..(Len(ls) - 1) : MalformedAt(ls, j)
  /\ LET h == SkipEnd(ls, FirstMalformed(ls) + 2)
     IN h < Len(ls) /\ IsRow(ls[h + 1])

\* a separator row of n columns of three dashes
DashRow(n) ==
  IF n = 0 THEN <<"|", "|">>
  ELSE [j \in 1..(4 * n + 1) |-> IF j % 4 = 1 THEN "|" ELSE "-"]

\* what the claim expects for the first block: the lines before it, the
\* caption header, the date, the true header row, the separator (when
\* withSeparator), the rows that follow
BlockOutput(ls, withSeparator) ==
  LET b == FirstMalformed(ls)
      h == SkipEnd(ls, b + 2)
      e == RowsEnd(ls, h)
      cells == SplitBar(ls[b + 1])
      hasDate == \E j \in 2..Len(cells) : SearchDate(Strip(cells[j])) # None
      date == SearchDate(Strip(cells[Min({j \in 2..Len(cells) :
                                            SearchDate(Strip(cells[j])) # None})]))
  IN Take(ls, b)
       \o <<Prefix(4) \o Strip(cells[2])>>
       \o (IF hasDate THEN <<date>> ELSE <<>>)
       \o <<ls[h + 1]>>
       \o (IF withSeparator THEN <<DashRow(Len(SplitBar(ls[h + 1])) - 2)>> ELSE <<>>)
       \o SubSeq(ls, h + 2, e)

IsPrefixOf(p, s) == Len(p) <= Len(s) /\ Take(s, Len(p)) = p

\* C4 as stated: every recognized block with a true header row is written as
\* the caption header, the date, the true header row, a separator of as many
\* columns as the header row has interior fields, and the further rows,
\* whether or not data rows follow the header row.
C4_BlockOutput ==
  (pc = "idle" /\ results # <<>> /\ HasBlock(tlines)) =>
    IsPrefixOf(BlockOutput(tlines, TRUE), fixed_lines)

\* C4 as amended: the same for every recognized block whose caption header is
\* not already the line before it, with the separator written only when at
\* least one table row follows the true header row.
C4_BlockOutputAmended ==
  (/\ pc = "idle"
   /\ results # <<>>
   /\ HasBlock(tlines)
   /\ ~(/\ FirstMalformed(tlines) > 0
        /\ Strip(tlines[FirstMalformed(tlines)]) =
             Prefix(4) \o Strip(SplitBar(tlines[FirstMalformed(tlines) + 1])[2]))) =>
    LET h == SkipEnd(tlines, FirstMalformed(tlines) + 2)
    IN IsPrefixOf(BlockOutput(tlines, RowsEnd(tlines, h) > h + 1), fixed_lines)

\* a block with a date, a true header row and a data row was rewritten
C4_Witness ==
  /\ pc = "idle"
  /\ Len(results) = 1
  /\ tlines = <<MALFORMED_ROW_A, SEPARATOR_ROW, TABLE_ROW, TABLE_ROW>>
  /\ fixed_lines = <<HEADER_A, DATE_TOKEN, TABLE_ROW, SEPARATOR_ROW, TABLE_ROW>>

InFix == pc \in {"fix_outer", "fix_skip", "fix_emit"}

\* C9: fix_malformed_tables terminates in a normal result state: the cursor
\* never passes the end of the lines, a call runs at most two loop tests for
\* each line, every test of its three loops advances the cursor or leaves the
\* loop it is in, and the call ends by returning the joined lines.
C9_Terminates ==
  /\ [](InFix => (i <= Len(tlines) /\ steps <= 2 * Len(tlines)))
  /\ [][InFix => (i' > i \/ pc' # pc)]_vars
  /\ [][(InFix /\ ~InFix') =>
         (pc' = "idle" /\ results' = Append(results, JoinLines(fixed_lines)))]_vars

\* a call has returned for lines that end in a malformed row and its separator
C9_Witness ==
  /\ pc = "idle"
  /\ Len(results) = 1
  /\ Len(tlines) >= 2
  /\ MalformedAt(tlines, Len(tlines) - 2)
  /\ i = Len(tlines)

(***************************************************************************)
(* The end of the table of contents                                        *)
(***************************************************************************)
\* one of the two TOC scans is in its loop
InTocScan == pc \in {"extract_toc_headers", "extract_toc_structure"}

\* C10: in extract_toc_headers and in extract_toc_structure, when the line
\* read in state IN_TOC (in_toc true, the line not itself a TOC-start line)
\* contains one of the three end-of-TOC tokens, the scanner is in state
\* OUTSIDE_TOC after the line (or the scan is over), so that no later line
\* is recorded before another TOC-start line.
C10_EndOfTocLeavesToc ==
  [][(/\ InTocScan
      /\ k < Len(lines)
      /\ in_toc
      /\ ~is_toc_start(lines[k + 1])
      /\ EndOfTocToken(lines[k + 1])
      /\ k' = k + 1)
     => (in_toc' = FALSE \/ ~InTocScan')]_vars

(***************************************************************************)
(* The hierarchy                                                           *)
(***************************************************************************)
\* the children recorded under p ("no entry" and "no child" alike are <<>>)
Children(h, p) == IF p \in Keys(h) THEN Get(h, p) ELSE <<>>

\* line j of ls is a header line of level L - 1 with the text p, and no
\* header line of a level <= L - 1 lies between it and line n
ParentLine(ls, j, n, L, p) ==
  /\ j < n
  /\ IsHeader(ls[j])
  /\ LevelCount(ls[j]) = L - 1
  /\ HeaderText(ls[j]) = p
  /\ \A q \in (j + 1)..(n - 1) :
       ~(IsHeader(ls[q]) /\ LevelCount(ls[q]) <= L - 1)

\* C6: whenever get_section_hierarchy records a child c under a parent p, c
\* is the text of the header line just read, of a level L in 2..4, and p is
\* the text of a preceding header line of level L - 1 with no header line of
\* a level <= L - 1 between the two; texts may repeat in the document.
C6_HierarchySound ==
  [][(pc = "get_section_hierarchy" /\ k' = k + 1) =>
     \A p \in Keys(hierarchy') :
       Children(hierarchy', p) # Children(hierarchy, p) =>
         /\ Children(hierarchy', p) =
              Append(Children(hierarchy, p), HeaderText(lines[k + 1]))
         /\ LevelCount(lines[k + 1]) \in 2..4
         /\ \E j \in 1..k :
              ParentLine(lines, j, k + 1, LevelCount(lines[k + 1]), p)]_vars

\* a header text is its own child (the document uses it at two levels) and
\* a header of level 3 was recorded under one of level 2
C6_Witness ==
  /\ pc = "returned"
  /\ \E p \in Keys(hierarchy) :
       \E j \in 1..Len(Get(hierarchy, p)) : Get(hierarchy, p)[j] = p
  /\ \E j \in 1..Len(lines) : LevelCount(lines[j]) = 3
  /\ \E p \in Keys(hierarchy) : Len(Get(hierarchy, p)) >= 2

(***************************************************************************)
(* The chunks                                                              *)
(***************************************************************************)
PairSet(d) == {d[j] : j \in 1..Len(d)}

\* C7 as claimed: the chunks of the text that is reassembled from the
\* chunks of a document are the same (header, body) pairs as the chunks of
\* the document.
C7_RoundTrip ==
  Len(chunk_results) >= 2 =>
    PairSet(chunk_results[2]) = PairSet(chunk_results[1])

\* no body of the chunks starts with the header marker
NoBodyOpensWithMarker(d) == \A j \in 1..Len(d) : ~IsHeader(d[j][2][1])

\* C7 as amended: the round trip holds for the documents none of whose
\* chunk bodies, once trimmed, starts with "#".
C7_RoundTripAmended ==
  (Len(chunk_results) >= 2 /\ NoBodyOpensWithMarker(chunk_results[1])) =>
    PairSet(chunk_results[2]) = PairSet(chunk_results[1])

\* two chunks, one with a body, went through the round trip
C7_Witness ==
  /\ Len(chunk_results) >= 2
  /\ NoBodyOpensWithMarker(chunk_results[1])
  /\ Len(chunk_results[1]) >= 2
  /\ \E j \in 1..Len(chunk_results[1]) : chunk_results[1][j][2] # << <<>> >>

\* the header lines of ls
HeaderLines(ls) == {j \in 1..Len(ls) : IsHeader(ls[j])}

\* the last header line of ls with the text of header line j
LastWithText(ls, j) ==
  Max({q \in HeaderLines(ls) : HeaderText(ls[q]) = HeaderText(ls[j])})

\* the lines after header line j up to the next header line
BodyLines(ls, j) ==
  LET later == {q \in HeaderLines(ls) : q > j}
  IN SubSeq(ls, j + 1, IF later = {} THEN Len(ls) ELSE Min(later) - 1)

\* the (header, body) pairs the claim C8 describes for the lines ls
ExpectedChunks(ls) ==
  {<<HeaderText(ls[j]), StripText(JoinLines(BodyLines(ls, j)))>> :
     j \in {q \in HeaderLines(ls) : q = LastWithText(ls, q)}}

\* C8 as claimed: split_by_headers maps each header text to the trimmed
\* join of the lines between the last header line with that text and the
\* next header line, and holds nothing else.
C8_LastHeaderWins ==
  Len(chunk_results) >= 1 =>
    PairSet(chunk_results[1]) = ExpectedChunks(SplitLines(input))

\* C8 as amended: split_by_headers maps each non-empty header text to the
\* trimmed join of the lines between the last header line with that text
\* and the next header line, and holds nothing else: a header line without
\* text opens no chunk, and the lines after it are in no chunk.
C8_LastHeaderWinsAmended ==
  Len(chunk_results) >= 1 =>
    PairSet(chunk_results[1]) =
      {p \in ExpectedChunks(SplitLines(input)) : p[1] # <<>>}

\* the document repeats a header text, with a body after the first header
\* line that is not the body after the last one
C8_Witness ==
  /\ Len(chunk_results) >= 1
  /\ LET ls == SplitLines(input)
     IN \E j, q \in HeaderLines(ls) :
          /\ j < q
          /\ HeaderText(ls[j]) # <<>>
          /\ HeaderText(ls[j]) = HeaderText(ls[q])
          /\ q = LastWithText(ls, q)
          /\ StripText(JoinLines(BodyLines(ls, j))) #
               StripText(JoinLines(BodyLines(ls, q)))
          /\ <<HeaderText(ls[q]), StripText(JoinLines(BodyLines(ls, q)))>>
               \in PairSet(chunk_results[1])

(***************************************************************************)
(* The recognition of a malformed block                                    *)
(***************************************************************************)
\* the pieces of a row between the first and the last piece of its split
InteriorFields(line) == SubSeq(SplitBar(line), 2, Len(SplitBar(line)) - 1)

\* the block of the claim C11 at line j (counted from 0): a table row of at
\* least min interior fields, the first with a marker at its start, another
\* a Col placeholder, and a next line that sep accepts
BlockAt(ls, j, min, sep(_)) ==
  /\ IsRow(ls[j + 1])
  /\ j + 1 < Len(ls)
  /\ sep(ls[j + 2])
  /\ LET fields == InteriorFields(ls[j + 1])
     IN /\ Len(fields) >= min
        /\ MarkerLen(Strip(fields[1])) > 0
        /\ \E q \in 2..Len(fields) : IsColPlaceholder(Strip(fields[q]))

\* a row composed only of the delimiter, dashes, colons and whitespace
PureSeparator(line) == IsRow(line) /\ AllIn(line, SepChar \cup {"|"})

\* a line that opens with the delimiter, one or more dashes, colons or
\* whitespace characters, and the delimiter again
SeparatorStart(line) ==
  \E n \in 1..(Len(line) - 2) :
    /\ line[1] = "|"
    /\ AllIn(SubSeq(line, 2, n + 1), SepChar)
    /\ line[n + 2] = "|"

\* the outer loop takes the branch of a recognized malformed row
Rewrites == pc = "fix_outer" /\ (pc' = "fix_skip" \/ i' = i + 2)

\* fix_malformed_tables has returned
FixReturned == pc = "idle" /\ results # <<>>

\* C11 as claimed: a row is rewritten as a malformed block only if the next
\* line is a row of nothing but "|", dashes, colons and whitespace, the row
\* has at least 3 interior fields, the first opens with a marker and another
\* is a Col placeholder; an input without such a block is returned as it is.
C11_RecognizedOnlyIf ==
  /\ [][Rewrites => BlockAt(tlines, i, 3, PureSeparator)]_vars
  /\ []((FixReturned /\ \A j \in 0..(Len(tlines) - 1) :
                          ~BlockAt(tlines, j, 3, PureSeparator))
          => fixed_lines = tlines)

\* C11 as amended: the same with at least 2 interior fields and a next line
\* that only has to open with "|", a run of dashes, colons or whitespace
\* and "|".
C11_RecognizedOnlyIfAmended ==
  /\ [][Rewrites => BlockAt(tlines, i, 2, SeparatorStart)]_vars
  /\ []((FixReturned /\ \A j \in 0..(Len(tlines) - 1) :
                          ~BlockAt(tlines, j, 2, SeparatorStart))
          => fixed_lines = tlines)

\* a caption row of two interior fields before a line that only opens like
\* a separator was rewritten
C11_Witness ==
  /\ FixReturned
  /\ Len(tlines) >= 2
  /\ tlines[1] = MALFORMED_ROW_B
  /\ tlines[2] = LOOSE_SEPARATOR
  /\ fixed_lines[1] = Prefix(4) \o CAPTION_B

(***************************************************************************)
(* The rows that are skipped after a malformed row                         *)
(***************************************************************************)
\* a table row whose non-edge cells are all empty or the placeholder
BlankOrPlaceholderRow(line) ==
  /\ IsRow(line)
  /\ \A q \in 1..Len(InteriorFields(line)) :
       Strip(InteriorFields(line)[q]) \in {<<>>, FISCAL_YEAR}

\* such a row with one placeholder cell at least
PlaceholderRow(line) ==
  /\ BlankOrPlaceholderRow(line)
  /\ \E q \in 1..Len(InteriorFields(line)) :
       Strip(InteriorFields(line)[q]) = FISCAL_YEAR

\* the first line (counted from 0) at or after j that is not a row skip
\* accepts; Len(ls) when there is none
FirstKept(ls, j, skip(_)) ==
  Min({q \in j..Len(ls) : q = Len(ls) \/ ~skip(ls[q + 1])})

\* the output up to the true header row of the first malformed block: the
\* lines before the block, the caption header, the date, and the first table
\* row after the separator that skip does not accept
UpToHeaderRow(ls, skip(_)) ==
  LET b == FirstMalformed(ls)
      h == FirstKept(ls, b + 2, skip)
  IN Take(ls, b) \o CaptionLines(ls[b + 1])
       \o (IF h < Len(ls) /\ IsRow(ls[h + 1]) THEN <<ls[h + 1]>> ELSE <<>>)

\* C12 as claimed: after a recognized malformed row and its separator, every
\* immediately following table row whose non-edge cells are all empty or the
\* placeholder (a row of empty cells included) is omitted, and the first
\* table row that is not of that form is emitted as the true header row.
C12_PlaceholderRowsSkipped ==
  (FixReturned /\ \E j \in 0..(Len(tlines) - 1) : MalformedAt(tlines, j)) =>
    IsPrefixOf(UpToHeaderRow(tlines, BlankOrPlaceholderRow), fixed_lines)

\* C12 as amended: for a malformed row whose caption header is not already
\* the line before it, the rows omitted are those whose non-edge cells are
\* all empty or the placeholder with one placeholder cell at least; a row of
\* empty cells is not omitted, and is emitted as the true header row.
C12_PlaceholderRowsSkippedAmended ==
  (/\ FixReturned
   /\ \E j \in 0..(Len(tlines) - 1) : MalformedAt(tlines, j)
   /\ ~HeaderExists(tlines, FirstMalformed(tlines))) =>
    IsPrefixOf(UpToHeaderRow(tlines, PlaceholderRow), fixed_lines)

\* a placeholder row was omitted and the row of empty cells after it was
\* emitted as the true header row
C12_Witness ==
  /\ FixReturned
  /\ tlines = <<MALFORMED_ROW_B, SEPARATOR_ROW, SKIP_ROW, EMPTY_ROW>>
  /\ fixed_lines = <<Prefix(4) \o CAPTION_B, EMPTY_ROW>>

(***************************************************************************)
(* The title                                                               *)
(***************************************************************************)
\* phase 2 is about to read a line that spells the title, content has
\* started and the output buffer is empty
TitleCase ==
  /\ pc = "segment"
  /\ k < Len(lines)
  /\ content_started \/ StartsContent(lines[k + 1])
  /\ MatchesTitle(Strip(lines[k + 1]))
  /\ normalized_lines = <<>>

\* C13: once content has started, a line that spells the title and is read
\* while the output buffer is empty is written as the canonical title
\* header; and the case is reachable: when the caller is about to call
\* normalize there is a document it may hold for which the title line is the
\* first line written and is the canonical header.
C13_TitleCaseReachable ==
  /\ [][TitleCase => normalized_lines' = <<Prefix(1) \o TITLE>>]_vars
  /\ [](pc = "idle" =>
          \E d \in Inputs : TitleBranches(SplitLines(d), FALSE, TRUE) > 0)
====
